---- MODULE Spec2Model ----
(***************************************************************************)
(* Model of plot_eeg_ecg.py: the column classifier (find_time_col,         *)
(* find_eeg_cols, find_ecg_cols, find_cm_cols, find_ignore_cols, the EEG   *)
(* fallback) and the single pass of main that downsamples the table,       *)
(* builds one trace per classified column, checks for an empty figure,     *)
(* builds the visibility buttons and writes the HTML file.                 *)
(*                                                                         *)
(* A column name is a sequence of one-character strings, so that the       *)
(* regular expressions of the source are modelled by what they match.      *)
(***************************************************************************)
EXTENDS Integers, Sequences, FiniteSets, TLC

(* ---------------------------- bounds ----------------------------------- *)
MaxCols == 3      \* columns of a generated table
MaxRows == 3      \* rows of a generated table
MaxD    == 2      \* largest --downsample factor tried (1 .. MaxD)
MaxLen  == 3      \* length of the generated names the regex is probed with

(* --------------------------- characters -------------------------------- *)
UpperSeq == <<"A","B","C","D","E","F","G","H","I","J","K","L","M",
              "N","O","P","Q","R","S","T","U","V","W","X","Y","Z">>
LowerSeq == <<"a","b","c","d","e","f","g","h","i","j","k","l","m",
              "n","o","p","q","r","s","t","u","v","w","x","y","z">>
Digits   == {"0","1","2","3","4","5","6","7","8","9"}

Range(s) == {s[i] : i \in 1..Len(s)}

Letters  == Range(UpperSeq) \cup Range(LowerSeq)

\* upper-case letter -> lower-case letter
LowerMap == [ch \in Range(UpperSeq) |->
               LowerSeq[CHOOSE i \in 1..26 : UpperSeq[i] = ch]]

\* str.lower() / re.I on one character
Lower(ch) == IF ch \in DOMAIN LowerMap THEN LowerMap[ch] ELSE ch

LowerStr(s) == [i \in 1..Len(s) |-> Lower(s[i])]

IsAlnum(ch) == ch \in Letters \/ ch \in Digits

\* the mutant: a word character that leaves the underscore out
IsWord_alnum(ch) == IsAlnum(ch)

\* \w of Python's re: letters, digits and the underscore
IsWord(ch) == IsAlnum(ch) \/ ch = "_"

\* is the character at position p (1-based) a word character; positions
\* outside the string count as non-word, as for \b at the string edges
WordAt(s, p) == p >= 1 /\ p <= Len(s) /\ IsWord(s[p])

\* \b between positions p and p+1 (p in 0..Len(s))
Boundary(s, p) == WordAt(s, p) # WordAt(s, p + 1)

\* the literal lit occurs in s at position i, ignoring case (re.I)
LitAt(lit, s, i) ==
  \A j \in 1..Len(lit) : Lower(s[i + j - 1]) = Lower(lit[j])

\* re.search(r'\b' + lit + r'\b', s, flags=re.I)
SearchWord(lit, s) ==
  \E i \in 1..(Len(s) - Len(lit) + 1) :
    /\ LitAt(lit, s, i)
    /\ Boundary(s, i - 1)
    /\ Boundary(s, i + Len(lit) - 1)

\* 'lit' in s.lower()   /  an unanchored alternative of a re.I pattern
Contains(lit, s) == \E i \in 1..(Len(s) - Len(lit) + 1) : LitAt(lit, s, i)

(* ------------------------- keyword tables ------------------------------ *)
EEG_NAMES ==
  << <<"F","z">>, <<"C","z">>, <<"P","3">>, <<"C","3">>, <<"F","3">>,
     <<"F","4">>, <<"C","4">>, <<"P","4">>, <<"F","p","1">>, <<"F","p","2">>,
     <<"T","3">>, <<"T","4">>, <<"T","5">>, <<"T","6">>, <<"O","1">>,
     <<"O","2">>, <<"F","7">>, <<"F","8">>, <<"A","1">>, <<"A","2">>,
     <<"P","z">> >>

TimeToken == <<"t","i","m","e">>

\* alternatives of \b(x1|x2|leog|reog)\b
EcgWords == { <<"x","1">>, <<"x","2">>, <<"l","e","o","g">>, <<"r","e","o","g">> }

\* the anchored alternative of \bcm\b|common[_ ]?mode
CmWord == <<"c","m">>

\* the expansions of common[_ ]?mode
CmPhrases == { <<"c","o","m","m","o","n","_","m","o","d","e">>,
               <<"c","o","m","m","o","n"," ","m","o","d","e">>,
               <<"c","o","m","m","o","n","m","o","d","e">> }

\* the expansions of \b(x3|trigger|time_?offset|adc_?status|adc_?sequence|event|comments)\b
IgnoreWords ==
  { <<"x","3">>, <<"t","r","i","g","g","e","r">>,
    <<"t","i","m","e","_","o","f","f","s","e","t">>,
    <<"t","i","m","e","o","f","f","s","e","t">>,
    <<"a","d","c","_","s","t","a","t","u","s">>,
    <<"a","d","c","s","t","a","t","u","s">>,
    <<"a","d","c","_","s","e","q","u","e","n","c","e">>,
    <<"a","d","c","s","e","q","u","e","n","c","e">>,
    <<"e","v","e","n","t">>,
    <<"c","o","m","m","e","n","t","s">> }

(* --------------------------- classifier -------------------------------- *)
\* the literal lit occurs in s at position i, case-sensitively
LitAtCased(lit, s, i) ==
  /\ i + Len(lit) - 1 <= Len(s)
  /\ \A j \in 1..Len(lit) : s[i + j - 1] = lit[j]

RECURSIVE TimeScanCased(_, _)
TimeScanCased(cols, i) ==
  IF i > Len(cols) THEN cols[1]
  ELSE IF \E p \in 1..Len(cols[i]) : LitAtCased(TimeToken, cols[i], p) THEN cols[i]
  ELSE TimeScanCased(cols, i + 1)

\* the mutant: 'time' in c, without lower()
find_time_col_cased(cols) == TimeScanCased(cols, 1)

RECURSIVE TimeScan(_, _)
\* the for loop of find_time_col from column i on
TimeScan(cols, i) ==
  IF i > Len(cols) THEN cols[1]
  ELSE IF Contains(TimeToken, LowerStr(cols[i])) THEN cols[i]
  ELSE TimeScan(cols, i + 1)

find_time_col(cols) == TimeScan(cols, 1)

RECURSIVE Dedupe(_, _)
\* list(dict.fromkeys(found)): first occurrences, in order
Dedupe(found, seen) ==
  IF found = <<>> THEN <<>>
  ELSE IF Head(found) \in seen THEN Dedupe(Tail(found), seen)
  ELSE <<Head(found)>> \o Dedupe(Tail(found), seen \cup {Head(found)})

RECURSIVE EegFound(_, _)
\* the nested loops of find_eeg_cols from label k on: label-major order
EegFound(cols, k) ==
  IF k > Len(EEG_NAMES) THEN <<>>
  ELSE SelectSeq(cols, LAMBDA c : SearchWord(EEG_NAMES[k], c))
         \o EegFound(cols, k + 1)

find_eeg_cols(cols) == Dedupe(EegFound(cols, 1), {})

find_ecg_cols(cols) ==
  SelectSeq(cols, LAMBDA c : \E w \in EcgWords : SearchWord(w, c))

\* the mutant: cm matched as a substring
find_cm_cols_substr(cols) ==
  SelectSeq(cols, LAMBDA c : Contains(CmWord, c)
                             \/ \E ph \in CmPhrases : Contains(ph, c))

find_cm_cols(cols) ==
  SelectSeq(cols, LAMBDA c : SearchWord(CmWord, c)
                             \/ \E ph \in CmPhrases : Contains(ph, c))

find_ignore_cols(cols) ==
  SelectSeq(cols, LAMBDA c : \E w \in IgnoreWords : SearchWord(w, c))

\* the mutant: the ignore filter left out
NotIgnored_all(found, cols) == found

\* [c for c in found if c not in find_ignore_cols(df)]
NotIgnored(found, cols) ==
  LET ign == Range(find_ignore_cols(cols))
  IN SelectSeq(found, LAMBDA c : c \notin ign)

\* the mutant: the time column is not excluded from the fallback
Fallback_keeps_time(cols, num, tc, ecg, cm) ==
  LET nums   == SelectSeq(cols, LAMBDA c : \E i \in 1..Len(cols) : cols[i] = c /\ num[i])
      ignore == Range(ecg) \cup Range(cm) \cup Range(find_ignore_cols(cols))
  IN SelectSeq(nums, LAMBDA c : c \notin ignore)

\* lines 74-76: the numeric columns that are not time, ECG, CM or ignored
Fallback(cols, num, tc, ecg, cm) ==
  LET nums   == SelectSeq(cols, LAMBDA c : \E i \in 1..Len(cols) : cols[i] = c /\ num[i])
      ignore == {tc} \cup Range(ecg) \cup Range(cm) \cup Range(find_ignore_cols(cols))
  IN SelectSeq(nums, LAMBDA c : c \notin ignore)

(* ------------------------------ tables --------------------------------- *)
\* column names the generated tables are built from
NamePool ==
  { <<"F","z">>,                               \* Fz
    <<"X","1"," ","T","i","m","e">>,           \* X1 Time
    <<"C","M">>,                               \* CM
    <<"F","z"," ","e","v","e","n","t">>,       \* Fz event
    <<"v","a","l">> }                          \* val

\* pandas.read_csv yields distinct column names
Headers ==
  { h \in UNION { [1..n -> NamePool] : n \in 1..MaxCols } :
      \A i, j \in 1..Len(h) : h[i] = h[j] => i = j }

\* the header of the worked scenario: Time,Fz,Cz,X1,CM1
ScenarioHeader ==
  << <<"T","i","m","e">>, <<"F","z">>, <<"C","z">>, <<"X","1">>, <<"C","M","1">> >>

ScenarioRows == 10

\* cells: a number, a text cell, or the missing-value marker
Num(v) == <<"num", v>>
Txt(v) == <<"str", v>>
NaN    == <<"nan", 0>>

\* the cell of column i (1-based) at original row r (0-based); numbers are
\* whole multiples of 1000 so that the division by 1000.0 is exact
Cell(num, i, r) == IF num[i] THEN Num(1000 * (10 * r + i)) ELSE Txt(10 * r + i)

\* pd.to_numeric(..., errors='coerce') on one cell
ToNumeric(cell) == IF cell[1] = "num" THEN cell ELSE NaN

\* y / 1000.0 on one cell
Div1000(cell) == IF cell[1] = "num" THEN Num(cell[2] \div 1000) ELSE NaN

RECURSIVE SliceStep_from1(_, _, _)
\* the mutant: the slice keeps rows d-1, 2d-1, ...
SliceStep_from1(rows, d, start) ==
  IF start + d - 1 >= Len(rows) THEN <<>>
  ELSE <<rows[start + d]>> \o SliceStep_from1(rows, d, start + d)

RECURSIVE SliceStep(_, _, _)
\* df.iloc[::d]: the rows at positions start, start+d, ... of rows
SliceStep(rows, d, start) ==
  IF start >= Len(rows) THEN <<>>
  ELSE <<rows[start + 1]>> \o SliceStep(rows, d, start + d)

(* ------------------------------ state ---------------------------------- *)
VARIABLES
  pc,          \* position in main
  columns,     \* df.columns
  numeric,     \* numeric[i]: column i has a numeric dtype
  nrows,       \* rows of the table as read
  downsample,  \* args.downsample
  df,          \* the rows of df, as indices into the table as read
  time_col, eeg_cols, ecg_cols, cm_cols,
  fig_data,    \* fig.data
  eeg_idx, ecg_idx, cm_idx,
  buttons,     \* the visible vectors of the four buttons
  written,     \* the output file exists
  probe        \* one regex search: the name, the keyword, the result

vars == << pc, columns, numeric, nrows, downsample, df, time_col, eeg_cols,
           ecg_cols, cm_cols, fig_data, eeg_idx, ecg_idx, cm_idx, buttons,
           written, probe >>

NoButtons == [all |-> <<>>, eeg |-> <<>>, ecgcm |-> <<>>, none |-> <<>>]
NoProbe   == [name |-> <<>>, kw |-> <<>>, res |-> FALSE]

ColIndex(c) == CHOOSE i \in 1..Len(columns) : columns[i] = c

\* df[c]: the cells of column c over the current rows
ColumnValues(c) == [k \in 1..Len(df) |-> Cell(numeric, ColIndex(c), df[k])]

Init ==
  /\ pc = "classify"
  /\ \/ /\ columns \in Headers
        /\ numeric \in [1..Len(columns) -> BOOLEAN]
        /\ nrows \in 0..MaxRows
        /\ downsample \in 1..MaxD
     \/ /\ columns = ScenarioHeader
        /\ numeric = [i \in 1..5 |-> TRUE]
        /\ nrows = ScenarioRows
        /\ downsample = 1
  /\ df = [k \in 1..nrows |-> k - 1]
  /\ time_col = <<>>
  /\ eeg_cols = <<>>
  /\ ecg_cols = <<>>
  /\ cm_cols = <<>>
  /\ fig_data = <<>>
  /\ eeg_idx = <<>>
  /\ ecg_idx = <<>>
  /\ cm_idx = <<>>
  /\ buttons = NoButtons
  /\ written = FALSE
  /\ probe = NoProbe

(* ----------------------------- main ------------------------------------ *)
\* lines 67-76
Classify ==
  /\ pc = "classify"
  /\ LET tc    == find_time_col(columns)
         named == NotIgnored(find_eeg_cols(columns), columns)
         ecg   == NotIgnored(find_ecg_cols(columns), columns)
         cm    == NotIgnored(find_cm_cols(columns), columns)
     IN /\ time_col' = tc
        /\ ecg_cols' = ecg
        /\ cm_cols' = cm
        /\ eeg_cols' = IF named = <<>>
                       THEN Fallback(columns, numeric, tc, ecg, cm)
                       ELSE named
  /\ pc' = "downsample"
  /\ UNCHANGED << columns, numeric, nrows, downsample, df, fig_data, eeg_idx,
                  ecg_idx, cm_idx, buttons, written, probe >>

\* lines 84-86
Downsample ==
  /\ pc = "downsample"
  /\ df' = IF downsample > 1 THEN SliceStep(df, downsample, 0) ELSE df
  /\ pc' = "eeg_loop"
  /\ UNCHANGED << columns, numeric, nrows, downsample, time_col, eeg_cols,
                  ecg_cols, cm_cols, fig_data, eeg_idx, ecg_idx, cm_idx,
                  buttons, written, probe >>

\* go.Scatter(x=df[time_col], y=..., name=...) with the axis it is added to
Scatter(c, y, label, secondary, dash) ==
  [src |-> c, x |-> ColumnValues(time_col), y |-> y, name |-> label,
   secondary_y |-> secondary, dash |-> dash]

\* the mutant: the ECG loop records its trace in eeg_idx
AddECG_wrong_idx ==
  /\ pc = "ecg_loop"
  /\ IF Len(eeg_idx) - Len(eeg_cols) < Len(ecg_cols)
     THEN LET c == ecg_cols[Len(eeg_idx) - Len(eeg_cols) + 1]
              y == [k \in 1..Len(df) |-> Div1000(ToNumeric(ColumnValues(c)[k]))]
          IN /\ fig_data' = Append(fig_data,
                               Scatter(c, y, c \o <<" ","(","m","V",")">>, TRUE, FALSE))
             /\ eeg_idx' = Append(eeg_idx, Len(fig_data') - 1)
             /\ UNCHANGED << pc, ecg_idx >>
     ELSE /\ pc' = "cm_loop"
          /\ UNCHANGED << fig_data, ecg_idx, eeg_idx >>
  /\ UNCHANGED << columns, numeric, nrows, downsample, df, time_col, eeg_cols,
                  ecg_cols, cm_cols, cm_idx, buttons, written, probe >>

\* lines 92-97: one iteration of the EEG loop, or its exit
AddEEG ==
  /\ pc = "eeg_loop"
  /\ IF Len(eeg_idx) < Len(eeg_cols)
     THEN LET c == eeg_cols[Len(eeg_idx) + 1]
          IN /\ fig_data' = Append(fig_data,
                               Scatter(c, ColumnValues(c), c, FALSE, FALSE))
             /\ eeg_idx' = Append(eeg_idx, Len(fig_data') - 1)
             /\ UNCHANGED pc
     ELSE /\ pc' = "ecg_loop"
          /\ UNCHANGED << fig_data, eeg_idx >>
  /\ UNCHANGED << columns, numeric, nrows, downsample, df, time_col, eeg_cols,
                  ecg_cols, cm_cols, ecg_idx, cm_idx, buttons, written, probe >>

\* lines 100-106: one iteration of the ECG loop, or its exit
AddECG ==
  /\ pc = "ecg_loop"
  /\ IF Len(ecg_idx) < Len(ecg_cols)
     THEN LET c == ecg_cols[Len(ecg_idx) + 1]
              y == [k \in 1..Len(df) |-> Div1000(ToNumeric(ColumnValues(c)[k]))]
          IN /\ fig_data' = Append(fig_data,
                               Scatter(c, y, c \o <<" ","(","m","V",")">>, TRUE, FALSE))
             /\ ecg_idx' = Append(ecg_idx, Len(fig_data') - 1)
             /\ UNCHANGED pc
     ELSE /\ pc' = "cm_loop"
          /\ UNCHANGED << fig_data, ecg_idx >>
  /\ UNCHANGED << columns, numeric, nrows, downsample, df, time_col, eeg_cols,
                  ecg_cols, cm_cols, eeg_idx, cm_idx, buttons, written, probe >>

\* lines 109-117: one iteration of the CM loop, or its exit
AddCM ==
  /\ pc = "cm_loop"
  /\ IF Len(cm_idx) < Len(cm_cols)
     THEN LET c == cm_cols[Len(cm_idx) + 1]
              y == [k \in 1..Len(df) |-> Div1000(ToNumeric(ColumnValues(c)[k]))]
          IN /\ fig_data' = Append(fig_data,
                               Scatter(c, y, c \o <<" ","(","m","V",","," ","C","M",")">>,
                                       TRUE, TRUE))
             /\ cm_idx' = Append(cm_idx, Len(fig_data') - 1)
             /\ UNCHANGED pc
     ELSE /\ pc' = "check"
          /\ UNCHANGED << fig_data, cm_idx >>
  /\ UNCHANGED << columns, numeric, nrows, downsample, df, time_col, eeg_cols,
                  ecg_cols, cm_cols, eeg_idx, ecg_idx, buttons, written, probe >>

\* the mutant: the emptiness check left out
FatalCheck_skipped ==
  /\ pc = "check"
  /\ pc' = "layout"
  /\ UNCHANGED << columns, numeric, nrows, downsample, df, time_col, eeg_cols,
                  ecg_cols, cm_cols, fig_data, eeg_idx, ecg_idx, cm_idx,
                  buttons, written, probe >>

\* lines 119-120: raise SystemExit("No plottable channels found.")
FatalCheck ==
  /\ pc = "check"
  /\ pc' = IF fig_data = <<>> THEN "exit" ELSE "layout"
  /\ UNCHANGED << columns, numeric, nrows, downsample, df, time_col, eeg_cols,
                  ecg_cols, cm_cols, fig_data, eeg_idx, ecg_idx, cm_idx,
                  buttons, written, probe >>

\* lines 134-151: the four visible vectors, entry k for trace k-1
Buttons ==
  /\ pc = "layout"
  /\ LET total == Len(fig_data)
     IN buttons' =
          [all   |-> [k \in 1..total |-> TRUE],
           eeg   |-> [k \in 1..total |-> (k - 1) \in Range(eeg_idx)],
           ecgcm |-> [k \in 1..total |-> (k - 1) \in Range(ecg_idx \o cm_idx)],
           none  |-> [k \in 1..total |-> FALSE]]
  /\ pc' = "write"
  /\ UNCHANGED << columns, numeric, nrows, downsample, df, time_col, eeg_cols,
                  ecg_cols, cm_cols, fig_data, eeg_idx, ecg_idx, cm_idx,
                  written, probe >>

\* line 153: fig.write_html(args.output, ...)
WriteHtml ==
  /\ pc = "write"
  /\ written' = TRUE
  /\ pc' = "done"
  /\ UNCHANGED << columns, numeric, nrows, downsample, df, time_col, eeg_cols,
                  ecg_cols, cm_cols, fig_data, eeg_idx, ecg_idx, cm_idx,
                  buttons, probe >>

Next ==
  \/ Classify
  \/ Downsample
  \/ AddEEG
  \/ AddECG
  \/ AddCM
  \/ FatalCheck
  \/ Buttons
  \/ WriteHtml

Spec == Init /\ [][Next]_vars

(* ------------------------ one regex search ----------------------------- *)
\* every literal the source anchors with \b on both sides
Keywords == Range(EEG_NAMES) \cup EcgWords \cup {CmWord} \cup IgnoreWords

ProbeAlphabet == {"c", "M", "x", "1", "_", " "}

\* names that show the keywords next to letters, digits, underscores,
\* punctuation and the string edges
ProbePool ==
  { <<"F","z","_","r","a","w">>,                         \* Fz_raw
    <<"c","o","m","m","e","n","t","s">>,                 \* comments
    <<"c","o","m","m","o","n">>,                         \* common
    <<"C","M","1">>,                                     \* CM1
    <<"C","o","m","m","o","n","_","M","o","d","e">>,     \* Common_Mode
    <<"T","i","m","e","_","O","f","f","s","e","t">>,     \* Time_Offset
    <<"X","1",":","L","E","O","G">>,                     \* X1:LEOG
    <<"f","p","1","-","A","1">>,                         \* fp1-A1
    <<"F","z"," ","e","v","e","n","t">>,                 \* Fz event
    <<"X","3",":">>,                                     \* X3:
    <<"A","D","C","_","S","t","a","t","u","s">>,         \* ADC_Status
    <<"m","y","_","e","v","e","n","t">>,                 \* my_event
    <<"t","r","i","g","g","e","r","2">>,                 \* trigger2
    <<"P","z",".","1">>,                                 \* Pz.1
    <<"E","E","G","_","C","z">> }                        \* EEG_Cz

ProbeNames ==
  UNION { [1..n -> ProbeAlphabet] : n \in 0..MaxLen } \cup ProbePool

MatchInit ==
  /\ pc = "probe"
  /\ probe \in [name : ProbeNames, kw : {<<>>}, res : {FALSE}]
  /\ columns = <<>>
  /\ numeric = <<>>
  /\ nrows = 0
  /\ downsample = 1
  /\ df = <<>>
  /\ time_col = <<>>
  /\ eeg_cols = <<>>
  /\ ecg_cols = <<>>
  /\ cm_cols = <<>>
  /\ fig_data = <<>>
  /\ eeg_idx = <<>>
  /\ ecg_idx = <<>>
  /\ cm_idx = <<>>
  /\ buttons = NoButtons
  /\ written = FALSE

\* re.search(r'\b' + kw + r'\b', name, flags=re.I) for one keyword
ProbeWord(kw) ==
  /\ pc = "probe"
  /\ probe' = [name |-> probe.name, kw |-> kw,
               res |-> SearchWord(kw, probe.name)]
  /\ pc' = "probed"
  /\ UNCHANGED << columns, numeric, nrows, downsample, df, time_col, eeg_cols,
                  ecg_cols, cm_cols, fig_data, eeg_idx, ecg_idx, cm_idx,
                  buttons, written >>

MatchNext == \E kw \in Keywords : ProbeWord(kw)

MatchSpec == MatchInit /\ [][MatchNext]_vars

(* ============================ properties =============================== *)
AfterClassify ==
  pc \in {"downsample", "eeg_loop", "ecg_loop", "cm_loop", "check", "layout",
          "write", "done", "exit"}
AfterDownsample ==
  pc \in {"eeg_loop", "ecg_loop", "cm_loop", "check", "layout", "write",
          "done", "exit"}
AfterLoops == pc \in {"check", "layout", "write", "done", "exit"}

\* the groups are final: right after classification and when the run has ended
GroupsFinal == pc \in {"downsample", "done", "exit"}

IgnoredSet == Range(find_ignore_cols(columns))
Grouped    == Range(eeg_cols) \cup Range(ecg_cols) \cup Range(cm_cols)

\* the name-based EEG group, ignored columns removed (line 68)
NamedEeg == NotIgnored(find_eeg_cols(columns), columns)

\* s lists distinct elements of columns in table order
InTableOrder(s) ==
  \A a, b \in 1..Len(s) : a < b => ColIndex(s[a]) < ColIndex(s[b])

(* C1: the Time column, the final EEG, ECG and CommonMode groups and the    *)
(* Ignored set are pairwise disjoint, so every column has exactly one role. *)
C1_RolesDisjoint ==
  GroupsFinal =>
    /\ time_col \notin Grouped \cup IgnoredSet
    /\ Range(eeg_cols) \cap Range(ecg_cols) = {}
    /\ Range(eeg_cols) \cap Range(cm_cols) = {}
    /\ Range(ecg_cols) \cap Range(cm_cols) = {}
    /\ Grouped \cap IgnoredSet = {}

(* C2: a column that matches an ignore pattern is in none of the final     *)
(* EEG, ECG and CommonMode groups, by name matching or by the fallback.    *)
C2_IgnoredExcluded ==
  GroupsFinal => IgnoredSet \cap Grouped = {}

C2_Witness ==
  /\ pc = "done"
  /\ \E c \in IgnoredSet : c \in Range(find_eeg_cols(columns))
  /\ \E c \in IgnoredSet : numeric[ColIndex(c)]
  /\ eeg_cols # <<>>

\* kw occurs in name, ignoring case, with each neighbour absent or outside stop
TokenOccurs(kw, name, stop) ==
  \E i \in 1..(Len(name) - Len(kw) + 1) :
    /\ \A j \in 1..Len(kw) : LowerStr(name)[i + j - 1] = LowerStr(kw)[j]
    /\ i = 1 \/ name[i - 1] \notin stop
    /\ i + Len(kw) - 1 = Len(name) \/ name[i + Len(kw)] \notin stop

(* C3 as stated: a keyword matches exactly when it occurs bounded on each  *)
(* side by a non-alphanumeric character or a string edge, so a keyword     *)
(* delimited by an underscore matches.                                     *)
C3_AlnumBounded ==
  pc = "probed" =>
    (probe.res <=> TokenOccurs(probe.kw, probe.name, Letters \cup Digits))

(* C3 amended: a keyword matches exactly when it occurs bounded on each    *)
(* side by a string edge or a character that is neither a letter, a digit  *)
(* nor an underscore; a keyword delimited by an underscore does not match. *)
C3_WordBounded ==
  pc = "probed" =>
    (probe.res <=> TokenOccurs(probe.kw, probe.name, Letters \cup Digits \cup {"_"}))

C3_Witness ==
  /\ pc = "probed"
  /\ ~ probe.res
  /\ probe.kw = CmWord
  /\ probe.name = <<"c", "M", "_">>

ScenarioDone == columns = ScenarioHeader /\ pc = "done"

\* the trace at position k plots column i of the scenario, scaled by 1/div
ScenarioTrace(k, i, div) ==
  /\ fig_data[k].src = ScenarioHeader[i]
  /\ Len(fig_data[k].y) = ScenarioRows
  /\ \A r \in 1..ScenarioRows :
       /\ fig_data[k].y[r][1] = "num"
       /\ fig_data[k].y[r][2] * div = 1000 * (10 * (r - 1) + i)
       /\ fig_data[k].x[r] = Num(1000 * (10 * (r - 1) + 1))

(* C4 as stated: Time,Fz,Cz,X1,CM1 gives Time, EEG=[Fz,Cz], ECG=[X1],      *)
(* CommonMode=[CM1], four series (CM1 divided by 1000) and a written file. *)
C4_ScenarioWithCM ==
  ScenarioDone =>
    /\ time_col = ScenarioHeader[1]
    /\ eeg_cols = <<ScenarioHeader[2], ScenarioHeader[3]>>
    /\ ecg_cols = <<ScenarioHeader[4]>>
    /\ cm_cols = <<ScenarioHeader[5]>>
    /\ Len(fig_data) = 4
    /\ written

(* C4 amended: Time,Fz,Cz,X1,CM1 gives Time, EEG=[Fz,Cz], ECG=[X1] and an  *)
(* empty CommonMode group; three series are built (Fz and Cz raw, X1       *)
(* divided by 1000), none for CM1, and the file is written.                *)
C4_Scenario ==
  ScenarioDone =>
    /\ time_col = ScenarioHeader[1]
    /\ eeg_cols = <<ScenarioHeader[2], ScenarioHeader[3]>>
    /\ ecg_cols = <<ScenarioHeader[4]>>
    /\ cm_cols = <<>>
    /\ Len(fig_data) = 3
    /\ ScenarioTrace(1, 2, 1)
    /\ ScenarioTrace(2, 3, 1)
    /\ ScenarioTrace(3, 4, 1000)
    /\ ~ fig_data[1].secondary_y
    /\ ~ fig_data[2].secondary_y
    /\ fig_data[3].secondary_y
    /\ written

C4_Witness == ScenarioDone /\ written /\ Len(df) = ScenarioRows

(* C5: with all three groups empty the run ends in the "no plottable       *)
(* channels" exit and nothing is written; the file is written only after   *)
(* the emptiness check has passed with at least one series.                *)
C5_FatalCheck ==
  /\ (AfterLoops /\ Grouped = {}) =>
       (pc \in {"check", "exit"} /\ ~ written /\ fig_data = <<>>)
  /\ pc = "exit" => (fig_data = <<>> /\ ~ written)
  /\ pc \in {"layout", "write", "done"} => Len(fig_data) >= 1
  /\ written => (pc = "done" /\ Len(fig_data) >= 1)

C5_Witness == pc = "exit" /\ Grouped = {} /\ ~ written /\ Len(columns) >= 2

(* C6: exactly one series per column of the final groups and none for any  *)
(* other column; none plots the Time column or an Ignored column; the      *)
(* number of series is the number of non-time, non-ignored grouped columns.*)
C6_OneSeriesPerColumn ==
  AfterLoops =>
    /\ \A c \in Grouped :
         Cardinality({k \in 1..Len(fig_data) : fig_data[k].src = c}) = 1
    /\ \A k \in 1..Len(fig_data) :
         /\ fig_data[k].src \in Grouped
         /\ fig_data[k].src # time_col
         /\ fig_data[k].src \notin IgnoredSet
    /\ Len(fig_data)
         = Cardinality({c \in Grouped : c # time_col /\ c \notin IgnoredSet})

HasTime(name) ==
  \E p \in 1..(Len(name) - 3) :
    \A j \in 1..4 : Lower(name[p + j - 1]) = TimeToken[j]

C9_Downsample ==
  /\ ~ AfterDownsample => (fig_data = <<>> /\ Len(df) = nrows)
  /\ AfterDownsample =>
       /\ IF downsample > 1
          THEN /\ Len(df) = (nrows + downsample - 1) \div downsample
               /\ \A k \in 1..Len(df) : df[k] = (k - 1) * downsample
          ELSE /\ Len(df) = nrows
               /\ \A k \in 1..Len(df) : df[k] = k - 1
       /\ \A t \in 1..Len(fig_data) :
            /\ Len(fig_data[t].x) = Len(df)
            /\ Len(fig_data[t].y) = Len(df)
            /\ \A k \in 1..Len(df) :
                 /\ fig_data[t].x[k]
                      = Cell(numeric, ColIndex(time_col), df[k])
                 /\ ~ fig_data[t].secondary_y =>
                      fig_data[t].y[k]
                        = Cell(numeric, ColIndex(fig_data[t].src), df[k])

C9_Witness ==
  /\ pc = "done"
  /\ downsample = 2
  /\ nrows = 3
  /\ df = <<0, 2>>
  /\ Len(fig_data) >= 2

(* C10: each of the four presets has one entry per series; "All" shows     *)
(* every series, "Hide all" none, "EEG only" exactly the EEG series,       *)
(* "ECG+CM only" exactly the ECG and CommonMode series; every series index *)
(* is in exactly one of the three index lists, so the two group presets    *)
(* are disjoint and together cover all series.                             *)
C10_Presets ==
  pc \in {"write", "done"} =>
    LET total == Len(fig_data)
        E == Range(eeg_idx)
        G == Range(ecg_idx)
        M == Range(cm_idx)
    IN /\ Len(buttons.all) = total /\ Len(buttons.none) = total
       /\ Len(buttons.eeg) = total /\ Len(buttons.ecgcm) = total
       /\ E \cup G \cup M = 0..(total - 1)
       /\ E \cap G = {} /\ E \cap M = {} /\ G \cap M = {}
       /\ Len(eeg_idx) = Len(eeg_cols)
       /\ Len(ecg_idx) = Len(ecg_cols)
       /\ Len(cm_idx) = Len(cm_cols)
       /\ \A k \in 1..total :
            /\ buttons.all[k]
            /\ ~ buttons.none[k]
            /\ buttons.eeg[k] <=> ~ fig_data[k].secondary_y
            /\ buttons.eeg[k] <=> k <= Len(eeg_cols)
            /\ buttons.ecgcm[k] <=> fig_data[k].secondary_y
            /\ buttons.ecgcm[k] <=> ~ buttons.eeg[k]
            /\ (k - 1) \in M <=> fig_data[k].dash

C10_Witness ==
  /\ pc = "done"
  /\ eeg_idx # <<>>
  /\ ecg_idx # <<>>
  /\ cm_idx # <<>>

====
